---- MODULE Spec2Model ----
(***************************************************************************)
(* Model of aurox_clarity/controller.py: the Controller class, which       *)
(* drives an Aurox Clarity device over a HID handle.  Threads call the     *)
(* typed accessors or sendCommand; sendCommand takes the controller's      *)
(* lock, builds a record, writes it to the handle, reads a record back     *)
(* and returns it; the accessor decodes the record.  The HID handle is     *)
(* the environment: its write returns a count (-1 on failure), its read    *)
(* returns the bytes of one report (none on timeout) or raises, and a      *)
(* closed handle raises without touching the device.                       *)
(*                                                                         *)
(* Python lists are sequences: Python offset k is index k + 1 here.        *)
(***************************************************************************)
EXTENDS Integers, Sequences, FiniteSets, TLC

\* ------------------------------------------------------------ bounds
NumThreads == 2
MaxCalls == 2
MaxDel == 2

Threads == 1..NumThreads

\* ------------------------------------------------- protocol constants
SLEEP == 127
RUN == 15
DSKERR == 255
DSKMID == 16
FLTERR == 255
FLTMID == 16
GETVERSION == 0
CMDERROR == 255
GETONOFF == 18
GETDOOR == 19
GETDISK == 20
GETFILT == 21
GETCAL == 22
GETSERIAL == 25
FULLSTAT == 31
SETONOFF == 33
SETDISK == 35
SETFILT == 36
SETCAL == 37
SETSVCMODE1 == 224

\* default value of sendCommand's maxLength parameter
DefaultMaxLength == 16
\* default value of sendCommand's param parameter
DefaultParam == 0

\* ------------------------------------------------------ Python values
\* The outcome of a Python expression or call: a value, or a raised
\* exception named by its class.
Value(v) == [kind |-> "value", val |-> v]
Raise(e) == [kind |-> "error", val |-> e]
NoOutcome == [kind |-> "none", val |-> ""]

\* [0x00] * n: a list of n zeros (the empty list when n <= 0).
Zeros(n) == [i \in 1..n |-> 0]

\* ------------------------------------------------------------- codec
\* Lines 138-140 of sendCommand: the record written to the handle.  The
\* assignments to buffer[1] and buffer[2] raise IndexError when the list
\* is too short to hold them.
BufferPadsShort(command, param, maxLength) ==
    LET n == IF maxLength < 3 THEN 3 ELSE maxLength
    IN  Value([Zeros(n) EXCEPT ![2] = command, ![3] = param])

BufferCmdAtZero(command, param, maxLength) ==
    IF maxLength < 3 THEN Raise("IndexError")
    ELSE Value([Zeros(maxLength) EXCEPT ![1] = command, ![2] = param])

Buffer(command, param, maxLength) ==
    IF maxLength < 2 THEN Raise("IndexError")
    ELSE IF maxLength < 3 THEN Raise("IndexError")
    ELSE Value([Zeros(maxLength) EXCEPT ![2] = command, ![3] = param])

\* The local list buffer when lines 138-140 are left: the whole record, or,
\* when an assignment raised IndexError, the list as line 138 and the
\* assignments before the failing one left it.
BufferLocal(command, param, maxLength) ==
    IF maxLength < 2 THEN Zeros(maxLength)
    ELSE IF maxLength < 3 THEN [Zeros(maxLength) EXCEPT ![2] = command]
    ELSE [Zeros(maxLength) EXCEPT ![2] = command, ![3] = param]

\* res[1] of the status accessors (getOnOff, getDoor, getDiskPosition,
\* getFilterPosition, getCalibrationLED).
StatusByteZeroed(res) ==
    IF Len(res) < 2 THEN Value(0) ELSE Value(res[2])

StatusByteRejectsError(res) ==
    IF Len(res) < 2 \/ res[2] = CMDERROR THEN Raise("IndexError")
    ELSE Value(res[2])

StatusByte(res) ==
    IF Len(res) < 2 THEN Raise("IndexError") ELSE Value(res[2])

\* The return expression of getSerialNumber.
SerialNumberBigEndian(res) ==
    IF Len(res) < 5 THEN Raise("IndexError")
    ELSE Value(  (res[2] \div 16) * 10000000
               + (res[2] % 16) * 1000000
               + (res[3] \div 16) * 100000
               + (res[3] % 16) * 10000
               + (res[4] \div 16) * 1000
               + (res[4] % 16) * 100
               + (res[5] \div 16) * 10
               + (res[5] % 16))

SerialNumber(res) ==
    IF Len(res) < 5 THEN Raise("IndexError")
    ELSE Value(  (res[5] \div 16) * 10000000
               + (res[5] % 16) * 1000000
               + (res[4] \div 16) * 100000
               + (res[4] % 16) * 10000
               + (res[3] \div 16) * 1000
               + (res[3] % 16) * 100
               + (res[2] \div 16) * 10
               + (res[2] % 16))

\* The return expression of getFullStat.
FullStatSwapped(res) ==
    IF Len(res) < 9 THEN Raise("IndexError")
    ELSE Value(<< <<res[2], res[3], res[4]>>,
                  res[6], res[5], res[7], res[8], res[9] >>)

FullStat(res) ==
    IF Len(res) < 9 THEN Raise("IndexError")
    ELSE Value(<< <<res[2], res[3], res[4]>>,
                  res[5], res[6], res[7], res[8], res[9] >>)

\* The return expression of getVersion.
Version(res) ==
    IF Len(res) < 4 THEN Raise("IndexError")
    ELSE Value(<<res[2], res[3], res[4]>>)

\* --------------------------------------------------------- accessors
StatusOps == {"getOnOff", "getDoor", "getDiskPosition",
              "getFilterPosition", "getCalibrationLED"}
SetOps == {"setDiskPosition", "setFilterPosition", "setCalibrationLED"}
SwitchOps == {"switchOn", "switchOff"}
AccessorOps == StatusOps \cup SetOps \cup SwitchOps
                 \cup {"getSerialNumber", "getFullStat", "getVersion"}

\* The command byte each accessor passes to sendCommand.
AccessorCommand(op) ==
    CASE op = "switchOn" -> SETONOFF
      [] op = "switchOff" -> SETONOFF
      [] op = "getOnOff" -> GETONOFF
      [] op = "setDiskPosition" -> SETDISK
      [] op = "getDiskPosition" -> GETDISK
      [] op = "setFilterPosition" -> SETFILT
      [] op = "getFilterPosition" -> GETFILT
      [] op = "setCalibrationLED" -> SETCAL
      [] op = "getCalibrationLED" -> GETCAL
      [] op = "getDoor" -> GETDOOR
      [] op = "getSerialNumber" -> GETSERIAL
      [] op = "getFullStat" -> FULLSTAT
      [] op = "getVersion" -> GETVERSION

\* The param byte each accessor passes to sendCommand (arg is the caller's
\* argument of the set accessors).
AccessorParamSwitchSwapped(op, arg) ==
    CASE op = "switchOn" -> SLEEP
      [] op = "switchOff" -> RUN
      [] op \in SetOps -> arg
      [] OTHER -> DefaultParam

AccessorParam(op, arg) ==
    CASE op = "switchOn" -> RUN
      [] op = "switchOff" -> SLEEP
      [] op \in SetOps -> arg
      [] OTHER -> DefaultParam

\* What the accessor returns from sendCommand's answer.  The switch and
\* set accessors discard the answer and return None, modelled as <<>>.
AccessorReturn(op, res) ==
    CASE op \in StatusOps -> StatusByte(res)
      [] op = "getSerialNumber" -> SerialNumber(res)
      [] op = "getFullStat" -> FullStat(res)
      [] op = "getVersion" -> Version(res)
      [] op = "sendCommand" -> Value(res)
      [] OTHER -> Value(<<>>)

\* ------------------------------------------------------------ inputs
\* The calls the threads make: typed accessors of each decoding shape and
\* sendCommand itself, with the default record length and with one too
\* short to hold offsets 1 and 2.  arg is the argument of a set accessor
\* or sendCommand's param.
RawCommand == SETSVCMODE1

Calls ==
    [op : {"getOnOff", "getSerialNumber", "getFullStat", "getVersion",
           "switchOn"},
     arg : {DefaultParam}, maxLength : {DefaultMaxLength}]
    \cup [op : {"sendCommand"}, arg : {RUN},
          maxLength : {1, 2, DefaultMaxLength}]

CallCommand(c) ==
    IF c.op = "sendCommand" THEN RawCommand ELSE AccessorCommand(c.op)

CallParam(c) ==
    IF c.op = "sendCommand" THEN c.arg ELSE AccessorParam(c.op, c.arg)

NoCall == [op |-> "none", arg |-> 0, maxLength |-> 0]

\* The reports the device may answer with (offset 0 is the report id).
FullStatReply == <<0, 1, 2, 3, 15, 1, 2, 3, 1, 0, 0, 0, 0, 0, 0, 0>>
ErrorReply == <<0, 255, 127, 16, 154, 0, 0, 0, 0, 0, 0, 0, 0, 0, 0, 0>>
DeviceReplies == {FullStatReply, ErrorReply}
\* The report sizes the device may answer with.
ReportLens == {1, 3, 4, 8, 16}

Min(a, b) == IF a < b THEN a ELSE b

\* hid.device.read(maxLength, timeoutMs) on an open handle returns the
\* first maxLength bytes of a report (or no bytes when the timeout expires
\* first, or raises IOError: see Read).
ReadAnswers(maxLength) ==
    {SubSeq(r, 1, Min(n, maxLength)) : r \in DeviceReplies, n \in ReportLens}

\* hid.device.write(buffer) on an open handle: the number of bytes
\* written, fewer than the record on a short write, -1 on failure.
WriteResults(b) == {-1, Len(b) - 1, Len(b)}

\* -------------------------------------------------------------- state
VARIABLES
    hidOpen,   \* self._hiddevice is open (not yet closed by __del__)
    lock,      \* self._lock: 0 when free, else the thread holding it
    pc,        \* per thread: "idle", "lock", "build", "read", "exit"
    call,      \* per thread: the call in progress
    cid,       \* per thread: the number of the call in progress
    released,  \* per thread: the handle was closed when the call was made
    buffer,    \* per thread: sendCommand's local buffer
    result,    \* per thread: sendCommand's local result
    answer,    \* per thread: sendCommand's local answer
    exc,       \* per thread: the exception propagating, "" when none
    log,       \* the handle's record of the writes and reads it performed
    failed,    \* the calls that ended after the handle failed them
    ncalls,    \* calls started so far
    ndel,      \* __del__ invocations so far
    owed,      \* the calls whose record reached the device and whose
               \* answer has not been read yet, oldest first
    src,       \* per thread: the call whose record the answer replies to
    closes,    \* the times the handle was actually closed
    ctor,      \* the construction of the Controller: its inputs and result
    cin,       \* the input a codec function is applied to
    cout       \* what the codec function made of it

sessionVars == <<hidOpen, lock, pc, call, cid, released, buffer, result,
                 answer, exc, log, failed, ncalls, ndel, owed, src, closes,
                 ctor>>
deviceVars == <<owed, src>>
lifeVars == <<closes, ctor>>
codecVars == <<cin, cout>>
vars == <<sessionVars, codecVars>>

NoInput == [op |-> "none", command |-> 0, param |-> 0, maxLength |-> 0,
            res |-> <<>>]

\* Controller(): the default index 0 with one device enumerated, whose
\* path (number 1) has been opened.
Constructed == [ndev |-> 1, index |-> 0, state |-> "ok", path |-> 1,
                err |-> ""]

\* No call made yet, __del__ not yet run.
InitIdle ==
    /\ lock = 0
    /\ pc = [t \in Threads |-> "idle"]
    /\ call = [t \in Threads |-> NoCall]
    /\ cid = [t \in Threads |-> 0]
    /\ released = [t \in Threads |-> FALSE]
    /\ buffer = [t \in Threads |-> <<>>]
    /\ result = [t \in Threads |-> 0]
    /\ answer = [t \in Threads |-> <<>>]
    /\ exc = [t \in Threads |-> ""]
    /\ log = <<>>
    /\ failed = {}
    /\ ncalls = 0
    /\ ndel = 0
    /\ owed = <<>>
    /\ src = [t \in Threads |-> 0]
    /\ closes = 0

\* A Controller just constructed on an open handle, no call made yet.
InitSession ==
    /\ hidOpen = TRUE
    /\ ctor = Constructed
    /\ InitIdle

Init ==
    /\ InitSession
    /\ cin = NoInput
    /\ cout = NoOutcome

\* ---------------------------------------------- what the handle did
\* The handle performed the write / the read of thread t's current call.
Wrote(t) == \E i \in 1..Len(log) : log[i] = [op |-> "write", id |-> cid[t]]
ReadDone(t) == \E i \in 1..Len(log) : log[i] = [op |-> "read", id |-> cid[t]]

\* The write of t's call reported failure (-1) or a short write.
WriteFailed(t) == Wrote(t) /\ result[t] < Len(buffer[t])
\* The read of t's call raised IOError.
ReadFailed(t) == ReadDone(t) /\ exc[t] = "IOError"
\* The read of t's call returned no bytes: the timeout expired.
TimedOut(t) == ReadDone(t) /\ exc[t] = "" /\ answer[t] = <<>>

\* ------------------------------------------------------------ actions
\* A thread calls an accessor or sendCommand and reaches the with
\* statement.
Call(t, c) ==
    /\ pc[t] = "idle"
    /\ ncalls < MaxCalls
    /\ ncalls' = ncalls + 1
    /\ pc' = [pc EXCEPT ![t] = "lock"]
    /\ call' = [call EXCEPT ![t] = c]
    /\ cid' = [cid EXCEPT ![t] = ncalls + 1]
    /\ released' = [released EXCEPT ![t] = ~hidOpen]
    /\ UNCHANGED <<hidOpen, lock, buffer, result, answer, exc, log, failed,
                   ndel>>
    /\ UNCHANGED codecVars
    /\ UNCHANGED <<deviceVars, lifeVars>>

\* with self._lock: blocks until the lock is free, then takes it.
AcquireNoWait(t) ==
    /\ pc[t] = "lock"
    /\ lock' = t
    /\ pc' = [pc EXCEPT ![t] = "build"]
    /\ UNCHANGED <<hidOpen, call, cid, released, buffer, result, answer,
                   exc, log, failed, ncalls, ndel>>
    /\ UNCHANGED codecVars
    /\ UNCHANGED <<deviceVars, lifeVars>>

Acquire(t) ==
    /\ pc[t] = "lock"
    /\ lock = 0
    /\ lock' = t
    /\ pc' = [pc EXCEPT ![t] = "build"]
    /\ UNCHANGED <<hidOpen, call, cid, released, buffer, result, answer,
                   exc, log, failed, ncalls, ndel>>
    /\ UNCHANGED codecVars
    /\ UNCHANGED <<deviceVars, lifeVars>>

\* Lines 138-141: build the record and write it.  An IndexError from the
\* assignments, or the ValueError of a closed handle, leaves the with
\* block; otherwise the handle performs the write and returns its count,
\* which sendCommand stores and does not look at.
Write(t) ==
    /\ pc[t] = "build"
    /\ LET b == Buffer(CallCommand(call[t]), CallParam(call[t]),
                       call[t].maxLength)
       IN  IF b.kind = "error"
           THEN /\ exc' = [exc EXCEPT ![t] = b.val]
                /\ pc' = [pc EXCEPT ![t] = "exit"]
                /\ buffer' = [buffer EXCEPT ![t] =
                                 BufferLocal(CallCommand(call[t]),
                                             CallParam(call[t]),
                                             call[t].maxLength)]
                /\ UNCHANGED <<result, log, owed>>
           ELSE IF ~hidOpen
           THEN /\ exc' = [exc EXCEPT ![t] = "ValueError"]
                /\ pc' = [pc EXCEPT ![t] = "exit"]
                /\ buffer' = [buffer EXCEPT ![t] = b.val]
                /\ UNCHANGED <<result, log, owed>>
           ELSE \E r \in WriteResults(b.val) :
                /\ buffer' = [buffer EXCEPT ![t] = b.val]
                /\ result' = [result EXCEPT ![t] = r]
                /\ log' = Append(log, [op |-> "write", id |-> cid[t]])
                /\ owed' = IF r = Len(b.val) THEN Append(owed, cid[t])
                           ELSE owed
                /\ pc' = [pc EXCEPT ![t] = "read"]
                /\ UNCHANGED exc
    /\ UNCHANGED <<hidOpen, lock, call, cid, released, answer, failed,
                   ncalls, ndel, src>>
    /\ UNCHANGED codecVars
    /\ UNCHANGED lifeVars

\* Line 142: read the answer.  A closed handle raises ValueError without
\* reading; an open one performs the read, which returns a report,
\* returns no bytes on timeout, or raises IOError on a hard failure.  The
\* device answers the records it received in the order it received them,
\* and the handle queues the answers: the report a read returns is the
\* answer to the oldest record not answered to a reader yet, and a read
\* that times out leaves that answer for a later read.
ReadRetriesOnTimeout(t) ==
    /\ pc[t] = "read"
    /\ pc' = [pc EXCEPT ![t] = "exit"]
    /\ IF ~hidOpen
       THEN /\ exc' = [exc EXCEPT ![t] = "ValueError"]
            /\ UNCHANGED <<answer, log, owed, src>>
       ELSE \/ /\ exc' = [exc EXCEPT ![t] = "IOError"]
               /\ log' = Append(log, [op |-> "read", id |-> cid[t]])
               /\ UNCHANGED <<answer, owed, src>>
            \/ /\ answer' = [answer EXCEPT ![t] = <<>>]
               /\ log' = log \o << [op |-> "read", id |-> cid[t]],
                                   [op |-> "read", id |-> cid[t]] >>
               /\ UNCHANGED <<exc, owed, src>>
            \/ /\ owed # <<>>
               /\ \E a \in ReadAnswers(call[t].maxLength) :
                     answer' = [answer EXCEPT ![t] = a]
               /\ log' = Append(log, [op |-> "read", id |-> cid[t]])
               /\ src' = [src EXCEPT ![t] = Head(owed)]
               /\ owed' = Tail(owed)
               /\ UNCHANGED exc
    /\ UNCHANGED <<hidOpen, lock, call, cid, released, buffer, result,
                   failed, ncalls, ndel>>
    /\ UNCHANGED codecVars
    /\ UNCHANGED lifeVars

Read(t) ==
    /\ pc[t] = "read"
    /\ pc' = [pc EXCEPT ![t] = "exit"]
    /\ IF ~hidOpen
       THEN /\ exc' = [exc EXCEPT ![t] = "ValueError"]
            /\ UNCHANGED <<answer, log, owed, src>>
       ELSE /\ log' = Append(log, [op |-> "read", id |-> cid[t]])
            /\ \/ /\ exc' = [exc EXCEPT ![t] = "IOError"]
                  /\ UNCHANGED <<answer, owed, src>>
               \/ /\ answer' = [answer EXCEPT ![t] = <<>>]
                  /\ UNCHANGED <<exc, owed, src>>
               \/ /\ owed # <<>>
                  /\ \E a \in ReadAnswers(call[t].maxLength) :
                        answer' = [answer EXCEPT ![t] = a]
                  /\ src' = [src EXCEPT ![t] = Head(owed)]
                  /\ owed' = Tail(owed)
                  /\ UNCHANGED exc
    /\ UNCHANGED <<hidOpen, lock, call, cid, released, buffer, result,
                   failed, ncalls, ndel>>
    /\ UNCHANGED codecVars
    /\ UNCHANGED lifeVars

\* What the caller gets when the with block is left: the propagating
\* exception, or what the accessor makes of the answer.
OutcomeSwallowsError(t) == AccessorReturn("sendCommand", answer[t])

Outcome(t) ==
    IF exc[t] # "" THEN Raise(exc[t])
    ELSE AccessorReturn(call[t].op, answer[t])

\* Line 143 and the end of the with block: the lock is released whether
\* the block returns or raises, and the locals go away; the accessor then
\* decodes the answer (Outcome).
ExitKeepLockOnError(t) ==
    /\ pc[t] = "exit"
    /\ lock' = IF exc[t] # "" THEN lock ELSE 0
    /\ failed' = IF WriteFailed(t) \/ ReadFailed(t) \/ TimedOut(t)
                 THEN failed \cup {cid[t]} ELSE failed
    /\ pc' = [pc EXCEPT ![t] = "idle"]
    /\ call' = [call EXCEPT ![t] = NoCall]
    /\ released' = [released EXCEPT ![t] = FALSE]
    /\ buffer' = [buffer EXCEPT ![t] = <<>>]
    /\ result' = [result EXCEPT ![t] = 0]
    /\ answer' = [answer EXCEPT ![t] = <<>>]
    /\ exc' = [exc EXCEPT ![t] = ""]
    /\ src' = [src EXCEPT ![t] = 0]
    /\ UNCHANGED <<hidOpen, cid, log, ncalls, ndel, owed>>
    /\ UNCHANGED codecVars
    /\ UNCHANGED lifeVars

ExitClosesOnError(t) ==
    /\ pc[t] = "exit"
    /\ lock' = 0
    /\ hidOpen' = IF exc[t] # "" THEN FALSE ELSE hidOpen
    /\ failed' = IF WriteFailed(t) \/ ReadFailed(t) \/ TimedOut(t)
                 THEN failed \cup {cid[t]} ELSE failed
    /\ pc' = [pc EXCEPT ![t] = "idle"]
    /\ call' = [call EXCEPT ![t] = NoCall]
    /\ released' = [released EXCEPT ![t] = FALSE]
    /\ buffer' = [buffer EXCEPT ![t] = <<>>]
    /\ result' = [result EXCEPT ![t] = 0]
    /\ answer' = [answer EXCEPT ![t] = <<>>]
    /\ exc' = [exc EXCEPT ![t] = ""]
    /\ src' = [src EXCEPT ![t] = 0]
    /\ UNCHANGED <<cid, log, ncalls, ndel, owed>>
    /\ UNCHANGED codecVars
    /\ UNCHANGED lifeVars

Exit(t) ==
    /\ pc[t] = "exit"
    /\ lock' = 0
    /\ failed' = IF WriteFailed(t) \/ ReadFailed(t) \/ TimedOut(t)
                 THEN failed \cup {cid[t]} ELSE failed
    /\ pc' = [pc EXCEPT ![t] = "idle"]
    /\ call' = [call EXCEPT ![t] = NoCall]
    /\ released' = [released EXCEPT ![t] = FALSE]
    /\ buffer' = [buffer EXCEPT ![t] = <<>>]
    /\ result' = [result EXCEPT ![t] = 0]
    /\ answer' = [answer EXCEPT ![t] = <<>>]
    /\ exc' = [exc EXCEPT ![t] = ""]
    /\ src' = [src EXCEPT ![t] = 0]
    /\ UNCHANGED <<hidOpen, cid, log, ncalls, ndel, owed>>
    /\ UNCHANGED codecVars
    /\ UNCHANGED lifeVars

\* __del__: close the handle.  hasattr(self, "_hiddevice") holds once
\* __init__ has reached line 109, whether or not it went on to open the
\* device.  Closing a handle that is not open does nothing.
DelClosesEachTime ==
    /\ ctor.state # "new"
    /\ ndel < MaxDel
    /\ ndel' = ndel + 1
    /\ hidOpen' = FALSE
    /\ closes' = closes + 1
    /\ UNCHANGED <<lock, pc, call, cid, released, buffer, result, answer,
                   exc, log, failed, ncalls, ctor>>
    /\ UNCHANGED <<codecVars, deviceVars>>

Del ==
    /\ ctor.state # "new"
    /\ ndel < MaxDel
    /\ ndel' = ndel + 1
    /\ hidOpen' = FALSE
    /\ closes' = IF hidOpen THEN closes + 1 ELSE closes
    /\ UNCHANGED <<lock, pc, call, cid, released, buffer, result, answer,
                   exc, log, failed, ncalls, ctor>>
    /\ UNCHANGED <<codecVars, deviceVars>>

Next ==
    \/ \E t \in Threads : \E c \in Calls : Call(t, c)
    \/ \E t \in Threads : Acquire(t)
    \/ \E t \in Threads : Write(t)
    \/ \E t \in Threads : Read(t)
    \/ \E t \in Threads : Exit(t)
    \/ Del

Spec == Init /\ [][Next]_vars

\* The same program under the scheduling its liveness rests on: the lock
\* is fair (a thread that waits at the with statement while the lock is
\* free again and again gets it), the handle's write returns, its read
\* returns within the timeout, and a thread that left the block goes on.
Fairness ==
    \A t \in Threads :
        /\ SF_vars(Acquire(t))
        /\ WF_vars(Write(t))
        /\ WF_vars(Read(t))
        /\ WF_vars(Exit(t))

SpecFair == Spec /\ Fairness

\* ------------------------------------------------------------- codec
\* The codec functions on their own: the record sendCommand builds and
\* what each accessor makes of an answer, applied to inputs drawn from
\* bounded sets.
MaxRecordLen == 17

CodecCommands == {GETVERSION, GETONOFF, GETDOOR, GETDISK, GETFILT, GETCAL,
                  GETSERIAL, FULLSTAT, SETONOFF, SETDISK, SETFILT, SETCAL,
                  SETSVCMODE1, CMDERROR}
CodecParams == {DefaultParam, 1, 3, RUN, SLEEP, 255}

\* Bytes of an answer: BCD digit pairs, the sentinels, and bytes with a
\* nibble above 9.
ByteSamples == {0, 1, 9, 18, 52, 153, DSKMID, SLEEP, 154, DSKERR}
FieldSamples == {1, 2, FLTERR}

PrefixAnswers ==
    {SubSeq(r, 1, n) : r \in DeviceReplies, n \in 0..DefaultMaxLength}
StatusAnswers == {<<0, b>> : b \in ByteSamples}
AllStatusAnswers == {<<0, b, 0>> : b \in 0..255}
SerialAnswers ==
    {<<0, a, b, c, d>> : a \in ByteSamples, b \in ByteSamples,
                         c \in ByteSamples, d \in ByteSamples}
FullStatAnswers ==
    {<<0, v1, v2, v3, o, d, k, f, c>> :
        v1 \in FieldSamples, v2 \in FieldSamples, v3 \in FieldSamples,
        o \in FieldSamples, d \in FieldSamples, k \in FieldSamples,
        f \in FieldSamples, c \in {1, 2}}

CodecInputs ==
    [op : {"encode"}, command : CodecCommands, param : CodecParams,
     maxLength : 0..MaxRecordLen, res : {<<>>}]
    \cup [op : AccessorOps \cup {"sendCommand"}, command : {0}, param : {0},
          maxLength : {0}, res : PrefixAnswers \cup StatusAnswers]
    \cup [op : {"getSerialNumber"}, command : {0}, param : {0},
          maxLength : {0}, res : SerialAnswers]
    \cup [op : {"getFullStat"}, command : {0}, param : {0},
          maxLength : {0}, res : FullStatAnswers]
    \cup [op : StatusOps, command : {0}, param : {0},
          maxLength : {0}, res : AllStatusAnswers]
    \cup [op : AccessorOps, command : {0}, param : CodecParams,
          maxLength : {DefaultMaxLength}, res : {<<>>}]

InitCodec ==
    /\ InitSession
    /\ cin \in CodecInputs
    /\ cout = NoOutcome

\* Lines 138-140 applied to (command, param, maxLength).
Encode ==
    /\ cin.op = "encode"
    /\ cout = NoOutcome
    /\ cout' = Buffer(cin.command, cin.param, cin.maxLength)
    /\ UNCHANGED <<sessionVars, cin>>

\* What the accessor cin.op returns when sendCommand's answer is cin.res.
Decode ==
    /\ cin.op \notin {"encode", "none"}
    /\ cin.maxLength = 0
    /\ cout = NoOutcome
    /\ cout' = AccessorReturn(cin.op, cin.res)
    /\ UNCHANGED <<sessionVars, cin>>

\* The record sendCommand builds when the accessor cin.op is called with
\* the argument cin.param (ignored by the accessors that take none): the
\* accessor leaves maxLength at its default.
Frame ==
    /\ cin.op \in AccessorOps
    /\ cin.maxLength = DefaultMaxLength
    /\ cout = NoOutcome
    /\ cout' = Buffer(AccessorCommand(cin.op), AccessorParam(cin.op, cin.param),
                      DefaultMaxLength)
    /\ UNCHANGED <<sessionVars, cin>>

NextCodec == Encode \/ Decode \/ Frame

SpecCodec == InitCodec /\ [][NextCodec]_vars

\* ------------------------------------------------------- construction
\* Controller(index) against an enumeration of ndev devices, whose paths
\* are numbered 1..ndev in enumeration order.
MaxDevices == 3
MaxIndex == 4

CtorInputs ==
    [ndev : 0..MaxDevices, index : -1..MaxIndex, state : {"new"},
     path : {0}, err : {""}]

InitCtor ==
    /\ hidOpen = FALSE
    /\ ctor \in CtorInputs
    /\ InitIdle
    /\ cin = NoInput
    /\ cout = NoOutcome

\* devices[index] of a Python list of n items: the item's position
\* (1..n), counting from the end for a negative index, or 0 when the index
\* is out of range and the subscript raises IndexError.
ListItem(n, index) ==
    IF 0 <= index /\ index < n THEN index + 1
    ELSE IF index < 0 /\ -n <= index THEN n + index + 1
    ELSE 0

\* __init__ (lines 108-112): enumerate, create the handle object, open the
\* path of devices[index].  The subscript raises IndexError when the index
\* is out of range, before open_path is called; open_path itself may fail
\* with IOError.  ctor.path is the path open_path was called with, 0 when
\* it was not called.
ConstructWraps ==
    /\ ctor.state = "new"
    /\ LET k == IF ctor.ndev = 0 THEN 0 ELSE (ctor.index % ctor.ndev) + 1
       IN  IF k = 0
           THEN /\ ctor' = [ctor EXCEPT !.state = "failed",
                                        !.err = "IndexError"]
                /\ UNCHANGED hidOpen
           ELSE /\ ctor' = [ctor EXCEPT !.state = "ok", !.path = k]
                /\ hidOpen' = TRUE
    /\ UNCHANGED <<lock, pc, call, cid, released, buffer, result, answer,
                   exc, log, failed, ncalls, ndel, closes>>
    /\ UNCHANGED <<codecVars, deviceVars>>

Construct ==
    /\ ctor.state = "new"
    /\ LET k == ListItem(ctor.ndev, ctor.index)
       IN  IF k = 0
           THEN /\ ctor' = [ctor EXCEPT !.state = "failed",
                                        !.err = "IndexError"]
                /\ UNCHANGED hidOpen
           ELSE \/ /\ ctor' = [ctor EXCEPT !.state = "ok", !.path = k]
                   /\ hidOpen' = TRUE
                \/ /\ ctor' = [ctor EXCEPT !.state = "failed", !.path = k,
                                           !.err = "IOError"]
                   /\ UNCHANGED hidOpen
    /\ UNCHANGED <<lock, pc, call, cid, released, buffer, result, answer,
                   exc, log, failed, ncalls, ndel, closes>>
    /\ UNCHANGED <<codecVars, deviceVars>>

NextCtor == Construct \/ Del

SpecCtor == InitCtor /\ [][NextCtor]_vars

\* ============================================================ claims
\* Python indexing in the statements below: the byte at offset k of s.
At(s, k) == s[k + 1]

\* The threads inside the with block of sendCommand.
InBlock == {t \in Threads : pc[t] \in {"build", "read", "exit"}}

\* C1: concurrent sendCommand calls never interleave on the handle: at most
\* one thread is inside the locked block, and in the handle's log every
\* write that has a successor is followed by the read of the same call,
\* never by a write or read of another call.
C1_Serialized ==
    /\ Cardinality(InBlock) <= 1
    /\ \A i \in 1..(Len(log) - 1) :
          log[i].op = "write" => log[i + 1] = [op |-> "read", id |-> log[i].id]

\* One thread has written and not yet read while another waits for the lock.
C1_Witness ==
    \E t \in Threads, u \in Threads :
        /\ t # u
        /\ pc[t] = "read" /\ Wrote(t) /\ ~ReadDone(t)
        /\ pc[u] = "lock"

\* C2: the lock is released on every exit path of sendCommand: it is held
\* by a thread exactly while that thread is inside the with block, so a
\* thread whose call has returned or raised does not hold it.
C2_LockReleased ==
    /\ \A t \in Threads : pc[t] \in {"idle", "lock"} => lock # t
    /\ lock # 0 => lock \in InBlock

\* Every call has ended, one of them after a transport failure, and the
\* lock is free.
C2_Witness ==
    /\ failed # {}
    /\ \A t \in Threads : pc[t] = "idle"
    /\ lock = 0

\* C3: when the read delivers no response within the timeout, sendCommand
\* fails with a timeout error, distinct from a hard read error, instead of
\* returning bytes to the caller.
C3_TimeoutRaises ==
    \A t \in Threads :
        (/\ pc[t] = "exit" /\ ReadDone(t) /\ answer[t] = <<>>
         /\ exc[t] # "IOError")
            => exc[t] # ""

\* C4: when the write reports failure or a short write, sendCommand fails
\* with a write error and the transaction is aborted: no read follows and
\* no response is returned.
C4_WriteFailureRaises ==
    \A t \in Threads :
        WriteFailed(t) => (pc[t] = "exit" /\ exc[t] # "" /\ ~ReadDone(t))

\* C5: a failed transaction leaves the session usable: the step in which a
\* call ends after a write failure, read error or timeout does not close
\* the handle and leaves the lock free, and whenever the lock is free a
\* waiting call can take it.
C5_FailureEnds(t) ==
    /\ pc[t] = "exit"
    /\ pc'[t] = "idle"
    /\ WriteFailed(t) \/ ReadFailed(t) \/ TimedOut(t)

C5_UsableAfterFailure ==
    /\ [][\A t \in Threads :
            C5_FailureEnds(t) => (hidOpen' = hidOpen /\ lock' = 0)]_vars
    /\ [](\A u \in Threads :
            (failed # {} /\ lock = 0 /\ pc[u] = "lock") => ENABLED Acquire(u))

\* After a call failed on the handle, a later call has completed its own
\* write and read on the open handle and is returning the answer.
C5_Witness ==
    \E t \in Threads :
        /\ \E f \in failed : f < cid[t]
        /\ hidOpen
        /\ pc[t] = "exit" /\ Wrote(t) /\ ReadDone(t)
        /\ result[t] = Len(buffer[t])
        /\ exc[t] = "" /\ Len(answer[t]) = call[t].maxLength

\* C6 as stated: a call made after the handle was released performs no
\* write and no read on the device and fails with the closed handle's
\* error.
C6_AlwaysSessionClosed ==
    \A t \in Threads :
        released[t] =>
            /\ ~Wrote(t) /\ ~ReadDone(t)
            /\ pc[t] # "read"
            /\ pc[t] = "exit" =>
                  /\ Outcome(t).kind = "error"
                  /\ Outcome(t).val = "ValueError"

\* C6 as amended: a call made after the handle was released performs no
\* write and no read on the device and fails: with the closed handle's
\* error when its record can be built (maxLength >= 3, which every typed
\* accessor's is), with the IndexError of building the record otherwise.
C6_ClosedSessionFails ==
    \A t \in Threads :
        released[t] =>
            /\ ~Wrote(t) /\ ~ReadDone(t)
            /\ pc[t] # "read"
            /\ pc[t] = "exit" =>
                  /\ Outcome(t).kind = "error"
                  /\ Outcome(t).val = IF call[t].maxLength >= 3
                                      THEN "ValueError" ELSE "IndexError"

\* A typed accessor called after release is failing with the closed
\* handle's error.
C6_Witness ==
    \E t \in Threads :
        /\ released[t] /\ pc[t] = "exit"
        /\ call[t].op = "getOnOff"
        /\ exc[t] = "ValueError"

\* The number of bytes the decoding accessor op needs in the answer.
C7_Needs(op) ==
    CASE op \in StatusOps -> 2
      [] op = "getVersion" -> 4
      [] op = "getSerialNumber" -> 5
      [] op = "getFullStat" -> 9

\* C7: a decoding accessor whose answer is shorter than the field it
\* decodes fails with an error (IndexError) and returns no value.
C7_ShortAnswerFails ==
    \A t \in Threads :
        ( /\ pc[t] = "exit" /\ exc[t] = ""
          /\ call[t].op \in StatusOps \cup {"getVersion", "getSerialNumber",
                                            "getFullStat"}
          /\ Len(answer[t]) < C7_Needs(call[t].op) )
        => (Outcome(t).kind = "error" /\ Outcome(t).val = "IndexError")

\* getFullStat is failing on a 1-byte answer.
C7_Witness ==
    \E t \in Threads :
        /\ pc[t] = "exit" /\ ReadDone(t) /\ exc[t] = ""
        /\ call[t].op = "getFullStat"
        /\ Len(answer[t]) = 1
        /\ Outcome(t).kind = "error"

\* C8: for every command, param and length >= 3 the record has exactly
\* length bytes: 0 at offset 0, the command at offset 1, the param at
\* offset 2, and 0 at every offset from 3 on.
C8_FrameLayout ==
    (cin.op = "encode" /\ cout # NoOutcome /\ cin.maxLength >= 3) =>
        /\ cout.kind = "value"
        /\ Len(cout.val) = cin.maxLength
        /\ At(cout.val, 0) = 0
        /\ At(cout.val, 1) = cin.command
        /\ At(cout.val, 2) = cin.param
        /\ \A k \in 3..(cin.maxLength - 1) : At(cout.val, k) = 0

\* The 16-byte record of SETDISK with position 3 has been built.
C8_Witness ==
    /\ cin.op = "encode" /\ cin.maxLength = 16
    /\ cin.command = SETDISK /\ cin.param = 3
    /\ cout.kind = "value"

\* The eight decimal digits of the serial number, least significant
\* first: offset 1 holds digits 0 (low nibble) and 1 (high nibble), offset
\* 4 holds digits 6 and 7.
C9_Digits(res) ==
    [i \in 1..8 |->
        IF i % 2 = 1 THEN At(res, (i + 1) \div 2) % 16
        ELSE At(res, i \div 2) \div 16]

RECURSIVE C9_Pow10(_)
C9_Pow10(n) == IF n = 0 THEN 1 ELSE 10 * C9_Pow10(n - 1)

RECURSIVE C9_Sum(_, _)
C9_Sum(d, n) ==
    IF n = 0 THEN 0 ELSE C9_Sum(d, n - 1) + d[n] * C9_Pow10(n - 1)

\* C9: getSerialNumber reads offsets 1..4 as little-endian packed BCD: when
\* every nibble is a decimal digit the result is the sum of digit_i * 10^i;
\* 0x34 0x12 0x00 0x00 gives 1234 and four zero bytes give 0.
C9_SerialIsBcd ==
    (cin.op = "getSerialNumber" /\ cout # NoOutcome /\ Len(cin.res) >= 5) =>
        /\ cout.kind = "value"
        /\ (\A i \in 1..8 : C9_Digits(cin.res)[i] <= 9)
              => cout.val = C9_Sum(C9_Digits(cin.res), 8)
        /\ SubSeq(cin.res, 2, 5) = <<52, 18, 0, 0>> => cout.val = 1234
        /\ SubSeq(cin.res, 2, 5) = <<0, 0, 0, 0>> => cout.val = 0

\* An answer with four distinct non-zero digit pairs has been decoded.
C9_Witness ==
    /\ cin.op = "getSerialNumber"
    /\ cin.res = <<0, 52, 18, 153, 9>>
    /\ cout.kind = "value"
    /\ cout.val = 9991234

\* C10: getFullStat maps an answer of at least 9 bytes to the version
\* triple of offsets 1, 2, 3 followed by onOff, door, disk, filter, cal from
\* offsets 4, 5, 6, 7, 8; the answer carrying (1,2,3), 0x0F, 1, 2, 3, 1
\* decodes to exactly those values.
C10_FullStatFields ==
    (cin.op = "getFullStat" /\ cout # NoOutcome /\ Len(cin.res) >= 9) =>
        /\ cout.kind = "value"
        /\ Len(cout.val) = 6
        /\ cout.val[1] = <<At(cin.res, 1), At(cin.res, 2), At(cin.res, 3)>>
        /\ \A k \in 4..8 : cout.val[k - 2] = At(cin.res, k)
        /\ SubSeq(cin.res, 2, 9) = <<1, 2, 3, 15, 1, 2, 3, 1>>
              => cout.val = << <<1, 2, 3>>, 15, 1, 2, 3, 1 >>

\* The answer carrying (1,2,3), 0x0F, 1, 2, 3, 1 has been decoded.
C10_Witness ==
    /\ cin.op = "getFullStat"
    /\ Len(cin.res) >= 9
    /\ SubSeq(cin.res, 1, 9) = <<0, 1, 2, 3, 15, 1, 2, 3, 1>>
    /\ cout.kind = "value"

\* The accessor table: the command and the param byte that the accessor op,
\* called with the argument arg, is to send.
C11_Table(op, arg) ==
    CASE op = "switchOn" -> <<33, 15>>
      [] op = "switchOff" -> <<33, 127>>
      [] op = "setDiskPosition" -> <<35, arg>>
      [] op = "setFilterPosition" -> <<36, arg>>
      [] op = "setCalibrationLED" -> <<37, arg>>
      [] op = "getOnOff" -> <<18, 0>>
      [] op = "getDoor" -> <<19, 0>>
      [] op = "getDiskPosition" -> <<20, 0>>
      [] op = "getFilterPosition" -> <<21, 0>>
      [] op = "getCalibrationLED" -> <<22, 0>>
      [] op = "getSerialNumber" -> <<25, 0>>
      [] op = "getFullStat" -> <<31, 0>>
      [] op = "getVersion" -> <<0, 0>>

\* C11: each typed accessor has sendCommand build the 16-byte record that
\* carries the command and the param of the accessor table at offsets 1 and
\* 2 and zeros elsewhere.
C11_AccessorFrames ==
    (cin.op \in AccessorOps /\ cin.maxLength = 16 /\ cout # NoOutcome) =>
        /\ cout.kind = "value"
        /\ Len(cout.val) = 16
        /\ At(cout.val, 1) = C11_Table(cin.op, cin.param)[1]
        /\ At(cout.val, 2) = C11_Table(cin.op, cin.param)[2]
        /\ \A k \in {0} \cup 3..15 : At(cout.val, k) = 0

\* switchOff has built its record.
C11_Witness ==
    /\ cin.op = "switchOff" /\ cin.maxLength = 16
    /\ cout.kind = "value"
    /\ At(cout.val, 1) = 33 /\ At(cout.val, 2) = 127

\* C13: the status accessors return the byte at offset 1 whatever it is,
\* the sentinels 0xFF, 0x7F and 0x10 included: they raise nothing.
C13_SentinelsReturned ==
    (cin.op \in StatusOps /\ cin.maxLength = 0 /\ cout # NoOutcome
        /\ Len(cin.res) >= 2) =>
        /\ cout.kind = "value"
        /\ cout.val = At(cin.res, 1)

\* getDiskPosition has returned DSKERR.
C13_Witness ==
    /\ cin.op = "getDiskPosition" /\ cin.maxLength = 0
    /\ Len(cin.res) >= 2
    /\ At(cin.res, 1) = 255
    /\ cout.kind = "value"
    /\ cout.val = 255

\* The number of writes / reads the handle performed for call id.
C12_Writes(id) ==
    Cardinality({i \in 1..Len(log) : log[i] = [op |-> "write", id |-> id]})
C12_Reads(id) ==
    Cardinality({i \in 1..Len(log) : log[i] = [op |-> "read", id |-> id]})

\* Thread t's call is about to return or raise on a session that has been
\* open since the call was made.
C12_EndsOpen(t) == pc[t] = "exit" /\ ~released[t] /\ hidOpen

\* C12 as stated: every call on an open session performs exactly one write
\* and at most one read, exactly one when the write succeeded.
C12_ExactlyOneWrite ==
    \A t \in Threads :
        C12_EndsOpen(t) =>
            /\ C12_Writes(cid[t]) = 1
            /\ C12_Reads(cid[t]) <= 1
            /\ result[t] = Len(buffer[t]) => C12_Reads(cid[t]) = 1

\* C12 as amended: a call whose record can be built (maxLength >= 3, which
\* every typed accessor's is) performs exactly one write and at most one
\* read on an open session, exactly one when the write succeeded; a call
\* with maxLength < 3 performs neither; no call ever repeats a write or a
\* read, whatever the handle reported.
C12_OneWriteOneRead ==
    /\ \A id \in 1..ncalls : C12_Writes(id) <= 1 /\ C12_Reads(id) <= 1
    /\ \A t \in Threads :
          C12_EndsOpen(t) =>
              IF call[t].maxLength >= 3
              THEN /\ C12_Writes(cid[t]) = 1
                   /\ C12_Reads(cid[t]) <= 1
                   /\ result[t] = Len(buffer[t]) => C12_Reads(cid[t]) = 1
              ELSE C12_Writes(cid[t]) = 0 /\ C12_Reads(cid[t]) = 0

\* A typed accessor's call is ending after its read timed out, with one
\* write and one read performed.
C12_Witness ==
    \E t \in Threads :
        /\ C12_EndsOpen(t) /\ TimedOut(t)
        /\ call[t].op = "getOnOff"
        /\ C12_Writes(cid[t]) = 1 /\ C12_Reads(cid[t]) = 1

\* C14: a typed accessor either decodes an answer of exactly the record
\* length it wrote or fails: it never returns a value decoded from a
\* shorter answer.
C14_FullRecordOrFail ==
    \A t \in Threads :
        ( /\ pc[t] = "exit" /\ ReadDone(t)
          /\ call[t].op \in StatusOps \cup {"getVersion", "getSerialNumber",
                                            "getFullStat"}
          /\ Outcome(t).kind = "value" )
        => Len(answer[t]) = Len(buffer[t])

\* C15: the session goes from Open to Closed at most once and never back:
\* the handle is actually closed at most once, a closed handle stays
\* closed, and __del__ on a closed session changes nothing but the count of
\* its invocations.
C15_ClosedOnce ==
    /\ [](closes <= 1 /\ (closes = 1 <=> (~hidOpen /\ ndel > 0)))
    /\ [][~hidOpen => ~hidOpen']_vars
    /\ [][(~hidOpen /\ ndel' # ndel) =>
            UNCHANGED <<hidOpen, lock, pc, call, cid, released, buffer,
                        result, answer, exc, log, failed, ncalls, owed, src,
                        closes, ctor>>]_vars

\* __del__ has run twice and the handle has been closed once.
C15_Witness == ndel = 2 /\ closes = 1 /\ ~hidOpen

\* C16: constructing with an index for which enumeration returned no
\* device (index >= the number of devices) fails (IndexError), calls
\* open_path with no path, and leaves no open session, whatever __del__
\* does afterwards.
C16_DeviceNotFound ==
    (ctor.state # "new" /\ ctor.index >= ctor.ndev) =>
        /\ ctor.state = "failed"
        /\ ctor.err = "IndexError"
        /\ ctor.path = 0
        /\ ~hidOpen
        /\ closes = 0

\* Index 2 with two devices enumerated has failed.
C16_Witness ==
    /\ ctor.ndev = 2 /\ ctor.index = 2
    /\ ctor.state = "failed"

\* C17: the bytes a call returns are the device's answer to the record that
\* same call wrote in full, never the answer to a record written by
\* another call.
C17_OwnAnswer ==
    \A t \in Threads :
        (/\ pc[t] = "exit" /\ exc[t] = "" /\ answer[t] # <<>>
         /\ result[t] = Len(buffer[t]))
            => src[t] = cid[t]

\* C19: a call with maxLength < 3 fails while the record is built: the
\* handle performs no write and no read for it, the call ends with the
\* IndexError of the assignment, and the lock is free once it has exited.
C19_Short(t) == pc[t] # "idle" /\ call[t].maxLength < 3

C19_ShortFrameFails ==
    /\ [](\A t \in Threads :
            C19_Short(t) =>
                /\ ~Wrote(t) /\ ~ReadDone(t)
                /\ pc[t] # "read"
                /\ Len(buffer[t]) < 3 /\ answer[t] = <<>>
                /\ pc[t] = "exit" =>
                      /\ exc[t] = "IndexError"
                      /\ Outcome(t).kind = "error"
                      /\ lock = t)
    /\ [][\A t \in Threads :
            (C19_Short(t) /\ pc[t] = "exit" /\ pc'[t] = "idle") =>
                lock' = 0 /\ log' = log /\ owed' = owed]_vars

C19_Witness ==
    \E t \in Threads :
        /\ call[t].op = "sendCommand" /\ call[t].maxLength = 2
        /\ pc[t] = "exit" /\ exc[t] = "IndexError"
        /\ hidOpen /\ lock = t

\* C18: under a fair lock and a transport whose write and read return,
\* every call a thread started returns or fails, and whenever a call waits
\* for the lock while no thread is inside the with block, some waiting
\* call can take the lock.
C18_InFlight == \E t \in Threads : pc[t] \in {"build", "read", "exit"}

C18_Completes ==
    /\ \A t \in Threads : (pc[t] # "idle") ~> (pc[t] = "idle")
    /\ []((~C18_InFlight /\ \E t \in Threads : pc[t] = "lock") =>
            \E t \in Threads : pc[t] = "lock" /\ ENABLED Acquire(t))

\* A call that started first still waits while a later call holds the lock.
C18_Witness ==
    \E t \in Threads, u \in Threads :
        /\ pc[t] = "exit" /\ lock = t
        /\ pc[u] = "lock" /\ cid[u] < cid[t]

====
